---- MODULE Spec2Model ----
(***************************************************************************)
(* A model of convert_to_432hz.py: the tuning corrector                    *)
(* (convert_to_432hz), the batch driver (batch_convert) and the parts of   *)
(* the file system and of the spectral estimator they act on.              *)
(*                                                                         *)
(* Paths are sequences of tokens ("a", "/", ".wav", ...), so that          *)
(* str.replace, str.endswith and os.path.splitext are computed on them as  *)
(* Python computes them on the characters.  Frequencies and tolerances are *)
(* exact rationals <<numerator, denominator>> in hertz.  A file's content  *)
(* is a buffer: what analyze_tuning reports for it, how many resampling    *)
(* steps produced it, its frame rate, and whether it is a pure tone.       *)
(***************************************************************************)
EXTENDS Integers, Sequences, FiniteSets, TLC

VARIABLES
    disk,            \* the file system: path -> buffer, for the files that exist
    disk0,           \* the file system as it was when the running call began
    pc,              \* position of the running operation
    calls,           \* menu choices taken so far
    file_path,       \* convert_to_432hz: parameter
    output_path,     \* convert_to_432hz: parameter
    max_iterations,  \* convert_to_432hz: parameter
    tolerance,       \* convert_to_432hz: parameter
    dominant_freq,   \* convert_to_432hz: local
    audio,           \* convert_to_432hz: local (the buffer in memory)
    iteration,       \* convert_to_432hz: local
    temp_output_path,\* convert_to_432hz: local
    result,          \* the value the last convert_to_432hz returned
    outcome,         \* which terminal state it ended in
    log,             \* what the running call has done so far, in order
    prev,            \* the call that returned before this one
    batch,           \* batch_convert: "none", "running" or "done"
    audio_files,     \* batch_convert: local, the files discovered
    cursor,          \* batch_convert: how many of them the for loop has taken
    attempted,       \* batch_convert: the calls of convert_to_432hz it made
    est_pc,          \* analyze_tuning: position of a call on a spectrum
    fft_freqs,       \* analyze_tuning: local, the frequencies of the bins
    fft_vals,        \* analyze_tuning: local, the magnitudes of the bins
    filtered_fft_freqs, \* analyze_tuning: local, the bins of the band
    filtered_fft_vals,  \* analyze_tuning: local, their magnitudes
    tuning           \* analyze_tuning: the value that call returned

vars == <<disk, disk0, pc, calls, file_path, output_path, max_iterations, tolerance,
          dominant_freq, audio, iteration, temp_output_path, result, outcome,
          log, prev, batch, audio_files, cursor, attempted, est_pc, fft_freqs,
          fft_vals, filtered_fft_freqs, filtered_fft_vals, tuning>>

convertVars == <<file_path, output_path, max_iterations, tolerance>>
batchVars == <<batch, audio_files, cursor, attempted>>
estimatorVars == <<est_pc, fft_freqs, fft_vals, filtered_fft_freqs,
                   filtered_fft_vals, tuning>>

----------------------------------------------------------------------------
(* Bounds of the model. *)

\* single conversions (menu choice "2") in one behaviour
MaxCalls == 2
\* largest max_iterations a caller passes explicitly
MaxIterations == 2
\* most files in the input folder of a batch
MaxFiles == 2
\* largest magnitude of a bin of a spectrum
MaxMag == 2

(* Program constants. *)

\* the reference pitch, in hertz
Target == 432
\* default of the parameter max_iterations
DefaultMaxIterations == 3
\* default of the parameter tolerance: 0.5 Hz
DefaultTolerance == <<1, 2>>
\* the band analyze_tuning looks at, in hertz
BandLow == 400
BandHigh == 500
\* how many harmonics analyze_tuning lists
MaxHarmonics == 5

----------------------------------------------------------------------------
(* Exact rational arithmetic on <<numerator, denominator>>, denominator > 0. *)

Abs(x) == IF x < 0 THEN -x ELSE x

RECURSIVE Gcd(_, _)
Gcd(a, b) == IF b = 0 THEN a ELSE Gcd(b, a % b)

Reduce(n, d) == LET g == Gcd(n, d) IN IF g = 0 THEN <<n, d>> ELSE <<n \div g, d \div g>>

\* f < k for a rational f and an integer k
LessThanInt(f, k) == f[1] < k * f[2]

\* |f - k| as a rational
Deviation(f, k) == <<Abs(f[1] - k * f[2]), f[2]>>

\* a <= b for rationals
Leq(a, b) == a[1] * b[2] <= b[1] * a[2]

----------------------------------------------------------------------------
(* analyze_tuning, as convert_to_432hz sees it. *)

\* None: no bin in the band, or an exception caught inside analyze_tuning
NoReport == [ok |-> FALSE, freq |-> <<0, 1>>]

Report(f) == [ok |-> TRUE, freq |-> f]

\* analyze_tuning(path): the report of the file at path; a missing file
\* raises inside analyze_tuning, which catches it and returns None
analyze_tuning(d, path) ==
    IF path \in DOMAIN d THEN d[path].report ELSE NoReport

\* the test of line 52 left out: None is taken for a report
TuningInfoNotTested(r) == FALSE

\* "if not tuning_info or 'dominant_freq' not in tuning_info"
NoTuningInfo(r) == ~r.ok

\* "if dominant_freq < 431": the threshold off by one
BelowTargetOffByOne(f) == LessThanInt(f, Target - 1)

\* "if dominant_freq < 432"
BelowTarget(f) == LessThanInt(f, Target)

\* "while iteration <= max_iterations": one turn too many
LoopGuardInclusive(i, m) == i <= m

\* a loop that tests after its first turn: one turn whatever max_iterations
LoopGuardAfterFirst(i, m) == i = 0 \/ i < m

\* "while iteration < max_iterations"
LoopGuard(i, m) == i < m

\* "abs(dominant_freq - 432) <= tolerance"
WithinTolerance(f, tol) == Leq(Deviation(f, Target), tol)

\* int(audio.frame_rate * speed_ratio), speed_ratio = 432.0 / dominant_freq
NewFrameRate(rate, f) == (rate * Target * f[2]) \div f[1]

\* what the resampled buffer measures.  A pure tone's frequency scales with
\* the frame-rate ratio applied by _spawn(...).set_frame_rate(...); for other
\* material the estimator's answer is not determined by the model
ToneReport(buf, f) ==
    LET r == NewFrameRate(buf.rate, f)
        g == Reduce(buf.report.freq[1] * r, buf.report.freq[2] * buf.rate)
    IN  Report(g)

----------------------------------------------------------------------------
(* Paths. *)

Sep == "/"
ExtTokens == {".wav", ".mp3", ".flac", ".aac", ".txt"}

\* str.replace(old, new) for a one-token old
RECURSIVE Replace(_, _, _)
Replace(path, old, new) ==
    IF path = <<>> THEN <<>>
    ELSE (IF Head(path) = old THEN new ELSE <<Head(path)>>)
         \o Replace(Tail(path), old, new)

\* output_path.replace(".wav", f"_temp_{iteration}.wav")
TempOutputPath(out, i) == Replace(out, ".wav", <<"_temp_", ToString(i), ".wav">>)

\* index of the last token of path that is in S, 0 if none
RECURSIVE LastIndexIn(_, _, _)
LastIndexIn(path, S, n) ==
    IF n = 0 THEN 0
    ELSE IF path[n] \in S THEN n ELSE LastIndexIn(path, S, n - 1)

\* os.path.splitext(path)[0]: cut at the last dot of the last component,
\* unless that dot starts the component
SplitextRoot(path) ==
    LET sep == LastIndexIn(path, {Sep}, Len(path))
        dot == LastIndexIn(path, ExtTokens, Len(path))
    IN  IF dot > sep + 1 THEN SubSeq(path, 1, dot - 1) ELSE path

\* os.path.join(a, b) for a relative b
Join(a, b) == a \o <<Sep>> \o b

\* supported_formats
SupportedFormats == {".wav", ".mp3", ".flac", ".aac"}

\* file.endswith(".wav"): the other formats forgotten
IsSupportedWavOnly(file) == Len(file) > 0 /\ file[Len(file)] = ".wav"

\* file.endswith(supported_formats)
IsSupported(file) == Len(file) > 0 /\ file[Len(file)] \in SupportedFormats

\* os.path.splitext(os.path.join(output_folder, relative_path))[0] + "_432Hz.wav"
BatchOutputPath(output_folder, relative_path) ==
    SplitextRoot(Join(output_folder, relative_path)) \o <<"_432Hz", ".wav">>

----------------------------------------------------------------------------
(* Buffers and the file system. *)

Buffer(r, g, rate, tone) == [report |-> r, gen |-> g, rate |-> rate, tone |-> tone]

NoBuffer == Buffer(NoReport, 0, 0, FALSE)
NoPath == <<>>
NoFreq == <<0, 1>>

\* audio.export(path, format="wav")
Export(d, path, buf) ==
    [p \in DOMAIN d \cup {path} |-> IF p = path THEN buf ELSE d[p]]

\* os.rename(src, dst) of an existing src: dst is replaced, src is gone;
\* renaming a file onto itself changes nothing
Rename(d, src, dst) ==
    [p \in (DOMAIN d \ {src}) \cup {dst} |-> IF p = dst THEN d[src] ELSE d[p]]

\* the frequencies the estimator may report for material that is not a pure
\* tone: below, at and above the reference pitch
Freqs == {<<431, 1>>, <<432, 1>>, <<433, 1>>, <<440, 1>>}

\* what analyze_tuning may report for the buffer resampled from buf
Measured(buf, f) ==
    IF buf.tone THEN {ToneReport(buf, f)}
    ELSE {NoReport} \cup {Report(g) : g \in Freqs}

Event(op, path, f) == [op |-> op, path |-> path, freq |-> f]

\* the events of the log with the given op
Events(op) == {i \in 1..Len(log) : log[i].op = op}

----------------------------------------------------------------------------
(* convert_to_432hz(file_path, output_path, max_iterations, tolerance) *)

\* "return <ok>", also from the except clause
Finish(ok, what) ==
    /\ result' = ok
    /\ outcome' = what
    /\ pc' = "return"

\* lines 51-65: the initial analysis and the two early returns
InitialAnalysis ==
    /\ pc = "analyze"
    /\ LET tuning_info == analyze_tuning(disk, file_path)
       IN  /\ log' = Append(log, Event("analyze", file_path,
                                       IF tuning_info.ok THEN tuning_info.freq ELSE NoFreq))
           /\ IF NoTuningInfo(tuning_info)
              THEN Finish(FALSE, "unavailable") /\ UNCHANGED dominant_freq
              ELSE /\ dominant_freq' = tuning_info.freq
                   /\ IF BelowTarget(tuning_info.freq)
                      THEN Finish(FALSE, "skipped")
                      ELSE pc' = "decode" /\ UNCHANGED <<result, outcome>>
    /\ UNCHANGED <<disk, disk0, calls, convertVars, audio, iteration,
                   temp_output_path, prev, batchVars>>
    /\ UNCHANGED estimatorVars

\* lines 68-69: AudioSegment.from_file(file_path), which may raise
Decode ==
    /\ pc = "decode"
    /\ \E raises \in BOOLEAN :
         IF raises \/ file_path \notin DOMAIN disk
         THEN /\ Finish(FALSE, "error")
              /\ log' = Append(log, Event("raise", file_path, NoFreq))
              /\ UNCHANGED <<audio, iteration>>
         ELSE /\ audio' = disk[file_path]
              /\ iteration' = 0
              /\ pc' = "loop"
              /\ log' = Append(log, Event("decode", file_path, NoFreq))
              /\ UNCHANGED <<result, outcome>>
    /\ UNCHANGED <<disk, disk0, calls, convertVars, dominant_freq,
                   temp_output_path, prev, batchVars>>
    /\ UNCHANGED estimatorVars

\* lines 71-82: the loop test, the speed change and the export of the
\* scratch file, which may raise
Resample ==
    /\ pc = "loop"
    /\ IF LoopGuard(iteration, max_iterations)
       THEN \E m \in Measured(audio, dominant_freq), raises \in BOOLEAN :
              LET temp == TempOutputPath(output_path, iteration)
                  next == Buffer(m, audio.gen + 1, audio.rate, audio.tone)
              IN  /\ audio' = next
                  /\ temp_output_path' = temp
                  /\ IF raises
                     THEN /\ Finish(FALSE, "error")
                          /\ log' = log \o <<Event("resample", NoPath, dominant_freq),
                                             Event("raise", temp, NoFreq)>>
                          /\ UNCHANGED disk
                     ELSE /\ disk' = Export(disk, temp, next)
                          /\ pc' = "reanalyze"
                          /\ log' = log \o <<Event("resample", NoPath, dominant_freq),
                                             Event("scratch", temp, NoFreq)>>
                          /\ UNCHANGED <<result, outcome>>
       ELSE /\ pc' = "persist"
            /\ UNCHANGED <<disk, audio, temp_output_path, result, outcome, log>>
    /\ UNCHANGED <<disk0, calls, convertVars, dominant_freq, iteration, prev,
                   batchVars>>
    /\ UNCHANGED estimatorVars

\* lines 85-99 with "continue" in the place of "break"
ReanalyzeContinue ==
    /\ pc = "reanalyze"
    /\ LET tuning_info == analyze_tuning(disk, temp_output_path)
       IN  /\ log' = Append(log, Event("analyze", temp_output_path,
                                       IF tuning_info.ok THEN tuning_info.freq ELSE NoFreq))
           /\ IF NoTuningInfo(tuning_info)
              THEN pc' = "loop" /\ iteration' = iteration + 1 /\ UNCHANGED dominant_freq
              ELSE /\ dominant_freq' = tuning_info.freq
                   /\ IF WithinTolerance(tuning_info.freq, tolerance)
                      THEN pc' = "promote" /\ UNCHANGED iteration
                      ELSE pc' = "loop" /\ iteration' = iteration + 1
    /\ UNCHANGED <<disk, disk0, calls, convertVars, audio, temp_output_path,
                   result, outcome, prev, batchVars>>
    /\ UNCHANGED estimatorVars

\* lines 85-99: the re-analysis of the scratch file, the break, the
\* tolerance test and the increment
Reanalyze ==
    /\ pc = "reanalyze"
    /\ LET tuning_info == analyze_tuning(disk, temp_output_path)
       IN  /\ log' = Append(log, Event("analyze", temp_output_path,
                                       IF tuning_info.ok THEN tuning_info.freq ELSE NoFreq))
           /\ IF NoTuningInfo(tuning_info)
              THEN pc' = "persist" /\ UNCHANGED <<dominant_freq, iteration>>
              ELSE /\ dominant_freq' = tuning_info.freq
                   /\ IF WithinTolerance(tuning_info.freq, tolerance)
                      THEN pc' = "promote" /\ UNCHANGED iteration
                      ELSE pc' = "loop" /\ iteration' = iteration + 1
    /\ UNCHANGED <<disk, disk0, calls, convertVars, audio, temp_output_path,
                   result, outcome, prev, batchVars>>
    /\ UNCHANGED estimatorVars

\* lines 95-97: os.rename(temp_output_path, output_path), which may raise
Promote ==
    /\ pc = "promote"
    /\ \E raises \in BOOLEAN :
         IF raises \/ temp_output_path \notin DOMAIN disk
         THEN /\ Finish(FALSE, "error")
              /\ log' = Append(log, Event("raise", output_path, NoFreq))
              /\ UNCHANGED disk
         ELSE /\ disk' = Rename(disk, temp_output_path, output_path)
              /\ Finish(TRUE, "success")
              /\ log' = Append(log, Event("rename", output_path, NoFreq))
    /\ UNCHANGED <<disk0, calls, convertVars, dominant_freq, audio, iteration,
                   temp_output_path, prev, batchVars>>
    /\ UNCHANGED estimatorVars

\* lines 101-104 without the export: the last attempt is not saved
PersistNothing ==
    /\ pc = "persist"
    /\ Finish(FALSE, "failed")
    /\ log' = Append(log, Event("export", output_path, NoFreq))
    /\ UNCHANGED <<disk, disk0, calls, convertVars, dominant_freq, audio, iteration,
                   temp_output_path, prev, batchVars>>
    /\ UNCHANGED estimatorVars

\* lines 101-104: the export of the last attempt, which may raise
Persist ==
    /\ pc = "persist"
    /\ \E raises \in BOOLEAN :
         IF raises
         THEN /\ Finish(FALSE, "error")
              /\ log' = Append(log, Event("raise", output_path, NoFreq))
              /\ UNCHANGED disk
         ELSE /\ disk' = Export(disk, output_path, audio)
              /\ Finish(FALSE, "failed")
              /\ log' = Append(log, Event("export", output_path, NoFreq))
    /\ UNCHANGED <<disk0, calls, convertVars, dominant_freq, audio, iteration,
                   temp_output_path, prev, batchVars>>
    /\ UNCHANGED estimatorVars

NoCall == [file |-> NoPath, out |-> NoPath, mi |-> 0, tol |-> NoFreq,
           result |-> FALSE, outcome |-> "none"]

\* the call returns to its caller: the menu or batch_convert's for loop
Return ==
    /\ pc = "return"
    /\ pc' = IF batch = "running" THEN "batch" ELSE "idle"
    /\ prev' = [file |-> file_path, out |-> output_path, mi |-> max_iterations,
                tol |-> tolerance, result |-> result, outcome |-> outcome]
    /\ file_path' = NoPath
    /\ output_path' = NoPath
    /\ max_iterations' = 0
    /\ tolerance' = NoFreq
    /\ dominant_freq' = NoFreq
    /\ audio' = NoBuffer
    /\ iteration' = 0
    /\ temp_output_path' = NoPath
    /\ result' = FALSE
    /\ outcome' = "none"
    /\ log' = <<>>
    /\ UNCHANGED <<disk, disk0, calls, batchVars>>
    /\ UNCHANGED estimatorVars

----------------------------------------------------------------------------
(* main: choice "2", a single conversion with parameters of the caller. *)

\* the source file of the single conversions
Source == <<"a", ".wav">>
\* a path at which no file exists
Missing == <<"m", ".wav">>
\* the output paths a caller gives: with and without ".wav"
OutputPaths == {<<"b", ".wav">>, <<"b", ".mp3">>}
\* the tolerances a caller gives: 0.5 Hz and 1 Hz
Tolerances == {<<1, 2>>, <<1, 1>>}
\* the frame rates of the source files
FrameRates == {44100}

Enter(file, out, mi, tol) ==
    /\ file_path' = file
    /\ output_path' = out
    /\ max_iterations' = mi
    /\ tolerance' = tol
    /\ pc' = "analyze"
    /\ log' = <<>>
    /\ disk0' = disk
    /\ UNCHANGED <<disk, dominant_freq, audio, iteration, temp_output_path,
                   result, outcome, prev>>

\* the files a caller names: the source, a file that does not exist, or an
\* output of an earlier conversion
Inputs(d) == (DOMAIN d \cap ({Source} \cup OutputPaths)) \cup {Missing}

\* a caller that converts again keeps the output path and the settings of its
\* previous call, and may name another file
Settings ==
    IF prev = NoCall
    THEN {[out |-> o, mi |-> m, tol |-> t] :
            o \in OutputPaths, m \in 0..MaxIterations, t \in Tolerances}
    ELSE {[out |-> prev.out, mi |-> prev.mi, tol |-> prev.tol]}

\* the caller takes choice "2", having taken fewer than n choices
Choose(n) ==
    /\ pc = "idle"
    /\ calls < n
    /\ calls' = calls + 1
    /\ \E file \in Inputs(disk), s \in Settings :
         Enter(file, s.out, s.mi, s.tol)
    /\ UNCHANGED batchVars
    /\ UNCHANGED estimatorVars

Call == Choose(MaxCalls)

\* the first conversion of a behaviour
FirstCall == Choose(1)

----------------------------------------------------------------------------
(* batch_convert(input_folder, output_folder) *)

input_folder == <<"in">>
output_folder == <<"out">>

\* whether path lies under folder
Under(path, folder) ==
    /\ Len(path) > Len(folder) + 1
    /\ SubSeq(path, 1, Len(folder) + 1) = folder \o <<Sep>>

\* os.path.relpath(file_path, input_folder) for a file under input_folder
Relpath(path, folder) == SubSeq(path, Len(folder) + 2, Len(path))

\* the files os.walk(input_folder) yields that end in a supported format
Discovered(d) == {p \in DOMAIN d : Under(p, input_folder) /\ IsSupported(p)}

\* the orders in which os.walk may yield them
Orderings(S) ==
    {q \in [1..Cardinality(S) -> S] : \A i, j \in DOMAIN q : i # j => q[i] # q[j]}

\* lines 115-124: the discovery and the empty-input return
BatchStart ==
    /\ pc = "idle"
    /\ batch = "none"
    /\ calls' = calls + 1
    /\ \E files \in Orderings(Discovered(disk)) :
         /\ audio_files' = files
         /\ cursor' = 0
         /\ attempted' = <<>>
         /\ IF files = <<>>
            THEN pc' = "idle" /\ batch' = "done"
            ELSE pc' = "batch" /\ batch' = "running"
    /\ UNCHANGED <<disk, disk0, convertVars, dominant_freq, audio, iteration,
                   temp_output_path, result, outcome, log, prev>>
    /\ UNCHANGED estimatorVars

\* lines 126-131: one turn of the for loop, up to the call
BatchNext ==
    /\ pc = "batch"
    /\ IF cursor < Len(audio_files)
       THEN LET file == audio_files[cursor + 1]
                out == BatchOutputPath(output_folder, Relpath(file, input_folder))
            IN  /\ cursor' = cursor + 1
                /\ attempted' = Append(attempted, [file |-> file, out |-> out])
                /\ Enter(file, out, DefaultMaxIterations, DefaultTolerance)
                /\ UNCHANGED <<batch, audio_files>>
       ELSE /\ pc' = "idle"
            /\ batch' = "done"
            /\ UNCHANGED <<disk, disk0, convertVars, dominant_freq, audio,
                           iteration, temp_output_path, result, outcome, log,
                           prev, audio_files, cursor, attempted>>
    /\ UNCHANGED calls
    /\ UNCHANGED estimatorVars

----------------------------------------------------------------------------
(* analyze_tuning(file_path), on the bins of the spectrum.  A bin has a    *)
(* frequency (whole hertz) and a magnitude (np.abs of its FFT value, a     *)
(* natural number here).                                                   *)

\* None
None == [ok |-> FALSE, freq |-> NoFreq, harmonics |-> <<>>]

\* the dictionary of lines 34-39, without sample_rate and duration
TuningInfo(f, h) == [ok |-> TRUE, freq |-> f, harmonics |-> h]

\* line 27: "(fft_freqs >= 400) & (fft_freqs <= 500)"
InBand(f) == BandLow <= f /\ f <= BandHigh

\* line 27: valid_indices, as the set of the indices that are True
ValidIndices(freqs) == {i \in DOMAIN freqs : InBand(freqs[i])}

\* lines 28-29: a[valid_indices], the elements at those indices in order
Masked(a, idx) ==
    LET F[i \in 0..Len(a)] ==
          IF i = 0 THEN <<>>
          ELSE IF i \in idx THEN Append(F[i - 1], a[i]) ELSE F[i - 1]
    IN  F[Len(a)]

\* the sum of a sequence of numbers
Sum(a) ==
    LET F[i \in 0..Len(a)] == IF i = 0 THEN 0 ELSE F[i - 1] + a[i]
    IN  F[Len(a)]

\* the sum of the products a[i] * w[i]
Dot(a, w) == Sum([i \in DOMAIN a |-> a[i] * w[i]])

\* np.average without its test of the weights: 0/0 is returned
WeightsNotTested(w) == FALSE

\* np.average raises ZeroDivisionError when the weights sum to zero
WeightsSumToZero(w) == Sum(w) = 0

\* line 33: np.average(a, weights = w), for weights that do not sum to zero
Average(a, w) == Reduce(Dot(a, w), Sum(w))

\* np.argsort(keys) in ascending order of the keys
RECURSIVE ArgsortsOf(_, _)
ArgsortsOf(keys, S) ==
    IF S = {} THEN {<<>>}
    ELSE UNION {{<<i>> \o t : t \in ArgsortsOf(keys, S \ {i})} :
                  i \in {j \in S : \A k \in S : keys[j] <= keys[k]}}

\* np.argsort(vals): the largest magnitudes come last
ArgsortAscending(vals) == ArgsortsOf(vals, DOMAIN vals)

\* line 38: np.argsort(-filtered_fft_vals); the default sort is not stable,
\* so bins of equal magnitude may come in any order
Argsort(vals) == ArgsortsOf([i \in DOMAIN vals |-> -vals[i]], DOMAIN vals)

\* order[:n]
Leading(order, n) == SubSeq(order, 1, IF Len(order) < n THEN Len(order) ELSE n)

\* line 38: list(filtered_fft_freqs[order[:5]])
Harmonics(freqs, order) ==
    LET top == Leading(order, MaxHarmonics) IN [i \in DOMAIN top |-> freqs[top[i]]]

\* the bins of the spectrum that are modelled: of a short file, whose bins
\* lie 600 Hz apart; 100 Hz apart, with a bin on each end of the band; and
\* 20 Hz apart
Grids ==
    {<<0, 600>>, <<300, 400, 500, 600>>,
     <<380, 400, 420, 440, 460, 480, 500, 520>>}

\* lines 17-24: the file is decoded and transformed, or that raises and the
\* except clause returns None
Transform ==
    /\ est_pc = "entry"
    /\ \E raises \in BOOLEAN, grid \in Grids :
         IF raises
         THEN /\ est_pc' = "done"
              /\ tuning' = None
              /\ UNCHANGED <<fft_freqs, fft_vals>>
         ELSE /\ est_pc' = "fft"
              /\ fft_freqs' = grid
              /\ fft_vals' \in [DOMAIN grid -> 0..MaxMag]
              /\ UNCHANGED tuning
    /\ UNCHANGED <<filtered_fft_freqs, filtered_fft_vals>>
    /\ UNCHANGED <<disk, disk0, pc, calls, convertVars, dominant_freq, audio,
                   iteration, temp_output_path, result, outcome, log, prev,
                   batchVars>>

\* lines 27-29: the bins of the band
Filter ==
    /\ est_pc = "fft"
    /\ LET valid_indices == ValidIndices(fft_freqs)
       IN  /\ filtered_fft_vals' = Masked(fft_vals, valid_indices)
           /\ filtered_fft_freqs' = Masked(fft_freqs, valid_indices)
    /\ est_pc' = "filtered"
    /\ UNCHANGED <<fft_freqs, fft_vals, tuning>>
    /\ UNCHANGED <<disk, disk0, pc, calls, convertVars, dominant_freq, audio,
                   iteration, temp_output_path, result, outcome, log, prev,
                   batchVars>>

\* lines 31-43: the weighted average, the harmonics and the return; the
\* ZeroDivisionError of np.average ends in the except clause
Estimate ==
    /\ est_pc = "filtered"
    /\ IF Len(filtered_fft_vals) > 0
       THEN IF WeightsSumToZero(filtered_fft_vals)
            THEN tuning' = None
            ELSE \E order \in Argsort(filtered_fft_vals) :
                   tuning' = TuningInfo(Average(filtered_fft_freqs, filtered_fft_vals),
                                        Harmonics(filtered_fft_freqs, order))
       ELSE tuning' = None
    /\ est_pc' = "done"
    /\ UNCHANGED <<fft_freqs, fft_vals, filtered_fft_freqs, filtered_fft_vals>>
    /\ UNCHANGED <<disk, disk0, pc, calls, convertVars, dominant_freq, audio,
                   iteration, temp_output_path, result, outcome, log, prev,
                   batchVars>>

----------------------------------------------------------------------------
(* The specifications. *)

Idle ==
    /\ pc = "idle"
    /\ calls = 0
    /\ file_path = NoPath
    /\ output_path = NoPath
    /\ max_iterations = 0
    /\ tolerance = NoFreq
    /\ dominant_freq = NoFreq
    /\ audio = NoBuffer
    /\ iteration = 0
    /\ temp_output_path = NoPath
    /\ result = FALSE
    /\ outcome = "none"
    /\ log = <<>>
    /\ prev = NoCall
    /\ batch = "none"
    /\ audio_files = <<>>
    /\ cursor = 0
    /\ attempted = <<>>
    /\ est_pc = "entry"
    /\ fft_freqs = <<>>
    /\ fft_vals = <<>>
    /\ filtered_fft_freqs = <<>>
    /\ filtered_fft_vals = <<>>
    /\ tuning = None

\* what the estimator may report for a source file
SourceReports == {NoReport} \cup {Report(g) : g \in Freqs}

\* single conversions of one source file
Init ==
    /\ Idle
    /\ \E r \in SourceReports, rate \in FrameRates :
         disk = (Source :> Buffer(r, 0, rate, FALSE))
    /\ disk0 = disk

Convert ==
    \/ InitialAnalysis
    \/ Decode
    \/ Resample
    \/ Reanalyze
    \/ Promote
    \/ Persist
    \/ Return

Next == Call \/ Convert

Spec == Init /\ [][Next]_vars

\* one conversion, which the interpreter runs to its end: a step that is
\* enabled is taken
NextCall == FirstCall \/ Convert

FairCall == Init /\ [][NextCall]_vars /\ WF_vars(NextCall)

\* the files an input folder may hold, relative to it
RelNames == {<<"a", ".wav">>, <<"a", ".mp3">>, <<"a", ".txt">>}

\* what the estimator may report for a file of the input folder
BatchReports == {NoReport, Report(<<431, 1>>), Report(<<440, 1>>)}

\* one batch conversion of an input folder of at most MaxFiles files
InitBatch ==
    /\ Idle
    /\ \E names \in SUBSET RelNames :
         /\ Cardinality(names) <= MaxFiles
         /\ \E r \in [names -> BatchReports], rate \in FrameRates :
              disk = [p \in {Join(input_folder, n) : n \in names} |->
                        Buffer(r[Relpath(p, input_folder)], 0, rate, FALSE)]
    /\ disk0 = disk

NextBatch == BatchStart \/ BatchNext \/ Convert

SpecBatch == InitBatch /\ [][NextBatch]_vars

\* pure-tone sources: <<frequency, frame rate>>
ToneSources ==
    {<<<<420, 1>>, 44100>>, <<<<432, 1>>, 44100>>, <<<<433, 1>>, 44100>>,
     <<<<440, 1>>, 44100>>, <<<<440, 1>>, 8000>>, <<<<500, 1>>, 8000>>,
     <<<<466, 1>>, 48000>>, <<<<4321, 10>>, 44100>>, <<<<43201, 100>>, 8000>>}

\* single conversions of one pure-tone source file
InitTone ==
    /\ Idle
    /\ \E t \in ToneSources :
         disk = (Source :> Buffer(Report(t[1]), 0, t[2], TRUE))
    /\ disk0 = disk

SpecTone == InitTone /\ [][Next]_vars

\* one call of analyze_tuning, on the bins of a spectrum
InitEstimator ==
    /\ Idle
    /\ \E rate \in FrameRates : disk = (Source :> Buffer(NoReport, 0, rate, FALSE))
    /\ disk0 = disk

NextEstimator == Transform \/ Filter \/ Estimate

SpecEstimator == InitEstimator /\ [][NextEstimator]_vars

----------------------------------------------------------------------------
(* What the claims speak of. *)

\* convert_to_432hz is about to return
Returned == pc = "return"

\* convert_to_432hz is between its first statement and its return
Running == pc \in {"analyze", "decode", "loop", "reanalyze", "promote", "persist"}

\* resample steps the running call has performed
Resamples == Cardinality(Events("resample"))

\* an exception reached the except clause of the running call
Raised == Events("raise") # {}

\* the initial analysis gave a report
InitialOk == Len(log) >= 1 /\ log[1].op = "analyze" /\ log[1].freq # NoFreq

\* the frequency the initial analysis measured
InitialFreq == log[1].freq

\* the re-analyses of scratch files in the log
Reanalyses == {i \in Events("analyze") : i > 1}

\* f <= k for a rational f and an integer k
AtMostInt(f, k) == f[1] <= k * f[2]

\* |f - 432| <= tol, written out
Converged(f, tol) == Abs(f[1] - Target * f[2]) * tol[2] <= tol[1] * f[2]

----------------------------------------------------------------------------
\* an upper bound on the steps the running call still takes
StepsLeft ==
    CASE pc = "analyze"   -> 3 * max_iterations + 5
      [] pc = "decode"    -> 3 * max_iterations + 4
      [] pc = "loop"      -> 3 * (max_iterations - iteration) + 3
      [] pc = "reanalyze" -> 3 * (max_iterations - iteration) + 2
      [] pc = "promote"   -> 1
      [] pc = "persist"   -> 1
      [] OTHER            -> 0

\* C1: every call of convert_to_432hz terminates and performs at most
\* max_iterations resample steps: the count of resample steps never exceeds
\* max_iterations, every step of a running call lowers a non-negative bound
\* on the steps left, and a call that has started reaches its return.
C1_Terminates ==
    /\ [](Resamples <= max_iterations /\ StepsLeft >= 0)
    /\ [][Running => StepsLeft' < StepsLeft]_vars
    /\ (pc = "analyze") ~> Returned

\* a call that did not converge has used its whole budget and returns
C1_Witness ==
    /\ Returned
    /\ max_iterations = MaxIterations
    /\ Resamples = max_iterations
    /\ outcome = "failed"

----------------------------------------------------------------------------
----------------------------------------------------------------------------
\* C3: when no exception is raised, convert_to_432hz returns True exactly
\* when a re-analysis of a scratch file measured a frequency within the
\* tolerance; then the final output holds the buffer that was measured, the
\* scratch file of that iteration no longer exists, and no later iteration
\* has run.
C3_SuccessIffConverged ==
    (Returned /\ ~Raised) =>
        /\ result = TRUE <=>
             \E i \in Reanalyses :
               log[i].freq # NoFreq /\ Converged(log[i].freq, tolerance)
        /\ result = TRUE =>
             /\ output_path \in DOMAIN disk
             /\ disk[output_path] = audio
             /\ audio.report = Report(dominant_freq)
             /\ Converged(dominant_freq, tolerance)
             /\ temp_output_path \notin DOMAIN disk
             /\ Resamples = iteration + 1
             /\ log[Len(log)].op = "rename"

----------------------------------------------------------------------------
\* C4: when no exception is raised, a call whose max_iterations >= 1
\* iterations all ran without a re-measured frequency within the tolerance
\* writes the buffer of the last iteration to the final output path and
\* returns False; and after any call that performed a resample step, a file
\* exists at the final output path, whatever the result.
C4_LastAttemptPersisted ==
    (Returned /\ ~Raised) =>
        /\ ( /\ max_iterations >= 1
             /\ Resamples = max_iterations
             /\ \A i \in Reanalyses :
                  log[i].freq = NoFreq \/ ~Converged(log[i].freq, tolerance) )
           => /\ result = FALSE
              /\ output_path \in DOMAIN disk
              /\ disk[output_path] = audio
              /\ audio.gen = disk0[file_path].gen + max_iterations
        /\ Resamples >= 1 => output_path \in DOMAIN disk

\* a call has exhausted two or more iterations and left its last attempt
C4_Witness ==
    /\ Returned
    /\ ~Raised
    /\ max_iterations >= 2
    /\ Resamples = max_iterations
    /\ result = FALSE
    /\ output_path \in DOMAIN disk
    /\ disk[output_path].gen = disk0[file_path].gen + max_iterations

----------------------------------------------------------------------------
\* the re-analyses that gave no report
FailedReanalyses == {i \in Reanalyses : log[i].freq = NoFreq}

----------------------------------------------------------------------------
\* C6: two calls that end in different terminal states return different
\* values.
C6_OutcomesDistinguishable ==
    (Returned /\ prev # NoCall /\ prev.outcome # outcome) => prev.result # result

----------------------------------------------------------------------------
\* C7: a call on the file a successful call has just produced, with the same
\* tolerance, performs no resample step and returns as "skipped" or as a
\* success (no exception being raised).
C7_Idempotent ==
    ( /\ Returned
      /\ ~Raised
      /\ prev.result = TRUE
      /\ file_path = prev.out
      /\ tolerance = prev.tol )
    => Resamples = 0 /\ outcome \in {"skipped", "success"}

----------------------------------------------------------------------------
\* the files of the input folder that end in .wav, .mp3, .flac or .aac
SupportedInputs ==
    {p \in DOMAIN disk :
        /\ Under(p, input_folder)
        /\ p[Len(p)] \in {".wav", ".mp3", ".flac", ".aac"}}

AttemptedFiles == {attempted[i].file : i \in 1..Len(attempted)}

\* C8: batch_convert hands convert_to_432hz only files of the input folder
\* with a supported extension, each at most once; when it is done it has
\* handed over every one of them (none, when there is none); and whatever a
\* call returns, the for loop takes its next turn.
C8_BatchAttemptsEveryFile ==
    /\ [](/\ AttemptedFiles \subseteq SupportedInputs
          /\ Cardinality(AttemptedFiles) = Len(attempted)
          /\ batch = "done" => AttemptedFiles = SupportedInputs)
    /\ [][(Returned /\ batch = "running") => (pc' = "batch" /\ batch' = "running")]_vars
    /\ [][(pc = "batch" /\ cursor < Len(audio_files)) =>
            (pc' = "analyze" /\ Len(attempted') = Len(attempted) + 1)]_vars

\* the second file is being converted after the first ended in an exception
C8_Witness ==
    /\ batch = "running"
    /\ Len(attempted) = 2
    /\ prev.outcome = "error"
    /\ prev.file = attempted[1].file
    /\ file_path = attempted[2].file
    /\ Running

----------------------------------------------------------------------------
\* C9: two distinct files of one batch are never given the same output path.
C9_OutputPathsDistinct ==
    \A i, j \in 1..Len(attempted) :
        attempted[i].file # attempted[j].file => attempted[i].out # attempted[j].out

----------------------------------------------------------------------------
\* the frequencies the call has measured, in order
Measurements == {i \in Events("analyze") : log[i].freq # NoFreq}

\* |frequency - 432| never grows from one measurement to the next
Improving ==
    \A i, j \in Measurements :
        i < j => Leq(Deviation(log[j].freq, Target), Deviation(log[i].freq, Target))

\* a pure tone above 432 Hz, at least one iteration allowed, no exception
ToneCase ==
    /\ Returned
    /\ ~Raised
    /\ InitialOk
    /\ ~AtMostInt(InitialFreq, Target)
    /\ disk0[file_path].tone
    /\ max_iterations >= 1

\* 440 Hz at 44100 samples/s with tolerance 0.5 Hz
Scenario440 ==
    /\ InitialFreq = <<440, 1>>
    /\ disk0[file_path].rate = 44100
    /\ tolerance = <<1, 2>>

\* the first iteration used the speed ratio 432/440 and converged
Scenario440Converges ==
    /\ Resamples = 1
    /\ \A i \in Events("resample") : log[i].freq = <<440, 1>>
    /\ audio.report = Report(Reduce(440 * ((44100 * 432) \div 440), 44100))
    /\ result = TRUE

\* C10 (as stated): for a pure tone above 432 Hz the measured values of
\* |frequency - 432| never grow, with tolerance 1 Hz the call ends in
\* success within the tolerance, and 440 Hz at 44100 samples/s converges in
\* the first iteration with the speed ratio 432/440.
C10_ToneImproves ==
    ToneCase =>
        /\ Improving
        /\ tolerance = <<1, 1>> =>
             result = TRUE /\ Converged(dominant_freq, tolerance)
        /\ Scenario440 => Scenario440Converges

----------------------------------------------------------------------------
\* the call of analyze_tuning has returned
Analyzed == est_pc = "done"

\* the bins of the spectrum that lie in [400, 500] Hz
BandBins == {i \in DOMAIN fft_freqs : BandLow <= fft_freqs[i] /\ fft_freqs[i] <= BandHigh}

\* no bin of the band has a magnitude other than zero
NoBandEnergy == \A i \in BandBins : fft_vals[i] = 0

\* C11: for a buffer with no energy in [400, 500] Hz (no bin in the band,
\* or magnitude zero in every bin of the band) analyze_tuning returns None;
\* and a report it returns never has a dominant frequency that is zero or
\* undefined.
C11_NoEnergyNoReport ==
    Analyzed =>
        /\ NoBandEnergy => tuning = None
        /\ tuning.ok => tuning.freq[2] > 0 /\ tuning.freq[1] > 0

\* a spectrum with bins in the band, all of magnitude zero, and energy
\* outside the band, for which None was returned
C11_Witness ==
    /\ Analyzed
    /\ BandBins # {}
    /\ NoBandEnergy
    /\ \E i \in DOMAIN fft_vals : fft_vals[i] > 0
    /\ tuning = None

----------------------------------------------------------------------------
\* the initial analysis of the running call gave no report
InitialFailed == Len(log) >= 1 /\ log[1].op = "analyze" /\ log[1].freq = NoFreq

\* C12: when the initial analysis of the source file gives no report,
\* convert_to_432hz returns False at once: it has not decoded the file, has
\* performed no resample step and has written neither a scratch file nor
\* the final output file.
C12_NoReportFailsAtOnce ==
    InitialFailed =>
        /\ Returned
        /\ result = FALSE
        /\ outcome = "unavailable"
        /\ Len(log) = 1
        /\ audio = NoBuffer
        /\ disk = disk0

\* a source file that exists and for which analyze_tuning gave None
C12_Witness ==
    /\ InitialFailed
    /\ Returned
    /\ file_path \in DOMAIN disk
    /\ max_iterations >= 1

----------------------------------------------------------------------------
\* the directory of a path: what precedes its last component
Dirname(path) == SubSeq(path, 1, LastIndexIn(path, {Sep}, Len(path)))

\* the iteration in which the scratch file of event i was written
IterationOf(i) == Cardinality({j \in Events("scratch") : j < i})

\* <output path without extension>_temp_<k>.wav
NamedScratch(out, k) == SplitextRoot(out) \o <<"_temp_", ToString(k), ".wav">>

\* C13: the scratch path of iteration k is
\* <output path without extension>_temp_<k>.wav: it is not the final output
\* path, not the scratch path of another iteration, and it lies in the
\* directory of the final output path.
C13_ScratchPathsApart ==
    \A i \in Events("scratch") :
        /\ log[i].path = NamedScratch(output_path, IterationOf(i))
        /\ log[i].path # output_path
        /\ \A j \in Events("scratch") : j # i => log[j].path # log[i].path
        /\ Dirname(log[i].path) = Dirname(output_path)

----------------------------------------------------------------------------
\* the magnitude of the bin of frequency f
MagOf(f) == fft_vals[CHOOSE i \in DOMAIN fft_freqs : fft_freqs[i] = f]

\* the frequencies of the bins of the band
BandFreqs == {fft_freqs[i] : i \in BandBins}

\* the frequencies the returned report lists as harmonics
Listed == {tuning.harmonics[k] : k \in DOMAIN tuning.harmonics}

\* C14: a report analyze_tuning returns has its dominant frequency in
\* [400, 500] Hz and lists at most 5 harmonics: frequencies of bins of the
\* band, in order of non-increasing magnitude, and no bin left out has a
\* larger magnitude than a bin listed.
C14_ReportWithinBand ==
    (Analyzed /\ tuning.ok) =>
        /\ BandLow * tuning.freq[2] <= tuning.freq[1]
        /\ tuning.freq[1] <= BandHigh * tuning.freq[2]
        /\ Len(tuning.harmonics) <= MaxHarmonics
        /\ Len(tuning.harmonics) = Cardinality(Listed)
        /\ Cardinality(BandFreqs) >= MaxHarmonics => Len(tuning.harmonics) = MaxHarmonics
        /\ Cardinality(BandFreqs) < MaxHarmonics => Listed = BandFreqs
        /\ Listed \subseteq BandFreqs
        /\ \A k \in 1..(Len(tuning.harmonics) - 1) :
             MagOf(tuning.harmonics[k]) >= MagOf(tuning.harmonics[k + 1])
        /\ \A f \in BandFreqs \ Listed, g \in Listed : MagOf(f) <= MagOf(g)

\* a report on six bins of the band: five are listed, from magnitude 2 down
\* to magnitude 1 and not in order of frequency, and the bin left out is
\* the first of the band and has less
C14_Witness ==
    /\ Analyzed
    /\ tuning.ok
    /\ Cardinality(BandFreqs) = 6
    /\ Len(tuning.harmonics) = 5
    /\ MagOf(tuning.harmonics[1]) = 2
    /\ MagOf(tuning.harmonics[5]) = 1
    /\ tuning.harmonics[1] > tuning.harmonics[2]
    /\ BandLow \in BandFreqs \ Listed
    /\ MagOf(BandLow) = 0
    /\ tuning.freq[2] > 1

----------------------------------------------------------------------------
\* the events of the running call that wrote the file at path
WritesOf(path) ==
    {i \in 1..Len(log) :
        log[i].op \in {"scratch", "export", "rename"} /\ log[i].path = path}

\* the scratch events of the iterations before the last one
EarlierScratches == {i \in Events("scratch") : IterationOf(i) < Resamples - 1}

\* C15: a call writes the final output path at most once; after a success in
\* iteration k the scratch files of the iterations before k exist and that
\* of iteration k does not; after a failure that performed k iterations the
\* scratch files of all k exist, beside the final output (no exception
\* being raised).
C15_ScratchFilesKept ==
    /\ Cardinality(WritesOf(output_path)) <= 1
    /\ (Returned /\ ~Raised /\ Resamples >= 1) =>
         /\ result = TRUE =>
              /\ \A i \in EarlierScratches : log[i].path \in DOMAIN disk
              /\ \A i \in Events("scratch") \ EarlierScratches :
                   log[i].path \notin DOMAIN disk
         /\ result = FALSE =>
              /\ \A i \in Events("scratch") : log[i].path \in DOMAIN disk
              /\ output_path \in DOMAIN disk

----------------------------------------------------------------------------
\* C16: in every iteration of the loop the frequency the speed ratio
\* 432 / dominant_freq is computed from is at least 432 Hz, so that the
\* ratio is at most 1 and no resample step speeds the audio up.
C16_NeverSpeedsUp ==
    \A i \in Events("resample") : ~LessThanInt(log[i].freq, Target)

----------------------------------------------------------------------------
\* a call with max_iterations = 0 on a source measured at 432 Hz or above
\* is about to return
ZeroIterationsCase ==
    /\ Returned
    /\ max_iterations = 0
    /\ InitialOk
    /\ ~LessThanInt(InitialFreq, Target)

====
